---- MODULE Spec2Model ----
(***************************************************************************)
(* The L3 scope checker (L3/check.py) and the letrec eliminator            *)
(* (L3/eliminate_letrec.py), as pure functions over term trees, driven by  *)
(* two small state machines:                                               *)
(*   Spec      a Program is checked by check_program and then lowered by   *)
(*             eliminate_letrec_program;                                   *)
(*   SpecTerm  a single term is checked by check_term, or lowered by       *)
(*             eliminate_letrec_term, under an arbitrary context.          *)
(* Terms are records tagged with their language ("L3" source, "L2" target) *)
(* and their variant.                                                      *)
(***************************************************************************)
EXTENDS Integers, Sequences, FiniteSets, TLC

VARIABLES pc, program, term, context, verdict, output

vars == <<pc, program, term, context, verdict, output>>

(***************************************************************************)
(* Bounds of the input family.                                             *)
(***************************************************************************)
\* Size budget of an input: one unit per term node (a Branch node itself is
\* free, its four children are not, so that a Branch fits the budget), plus one
\* unit per parameter name of an Abstract or a Program, plus one unit per name
\* of the context a term is checked or lowered under.
MaxSize == 5

\* Size budget, counted the same way, of the inputs of SpecTerm that hold a
\* value outside the grammar.
MaxForeignSize == 3

Names == {"f", "g"}

Range(s) == {s[i] : i \in DOMAIN s}

(***************************************************************************)
(* L3 syntax: the twelve variants and Program.                             *)
(***************************************************************************)
Immediate(v) == [lang |-> "L3", tag |-> "Immediate", value |-> v]

Reference(n) == [lang |-> "L3", tag |-> "Reference", name |-> n]

Let(bs, b) == [lang |-> "L3", tag |-> "Let", bindings |-> bs, body |-> b]

LetRec(bs, b) == [lang |-> "L3", tag |-> "LetRec", bindings |-> bs, body |-> b]

Abstract(ps, b) == [lang |-> "L3", tag |-> "Abstract", parameters |-> ps, body |-> b]

Apply(t, as) == [lang |-> "L3", tag |-> "Apply", target |-> t, arguments |-> as]

Primitive(o, l, r) == [lang |-> "L3", tag |-> "Primitive", operator |-> o, left |-> l, right |-> r]

Branch(o, l, r, c, e) ==
  [lang |-> "L3", tag |-> "Branch", operator |-> o, left |-> l, right |-> r,
   consequent |-> c, otherwise |-> e]

Allocate(c) == [lang |-> "L3", tag |-> "Allocate", count |-> c]

Load(b, i) == [lang |-> "L3", tag |-> "Load", base |-> b, index |-> i]

Store(b, i, v) == [lang |-> "L3", tag |-> "Store", base |-> b, index |-> i, value |-> v]

Begin(es, v) == [lang |-> "L3", tag |-> "Begin", effects |-> es, value |-> v]

Program(ps, b) == [lang |-> "L3", tag |-> "Program", parameters |-> ps, body |-> b]

\* A value that is none of the twelve variants (the tests pass object()).
Foreign == [lang |-> "py", tag |-> "object"]

(***************************************************************************)
(* L2 syntax: the same shapes without LetRec.                              *)
(***************************************************************************)
L2Immediate(v) == [lang |-> "L2", tag |-> "Immediate", value |-> v]

L2Reference(n) == [lang |-> "L2", tag |-> "Reference", name |-> n]

L2Let(bs, b) == [lang |-> "L2", tag |-> "Let", bindings |-> bs, body |-> b]

L2Abstract(ps, b) == [lang |-> "L2", tag |-> "Abstract", parameters |-> ps, body |-> b]

L2Apply(t, as) == [lang |-> "L2", tag |-> "Apply", target |-> t, arguments |-> as]

L2Primitive(o, l, r) == [lang |-> "L2", tag |-> "Primitive", operator |-> o, left |-> l, right |-> r]

L2Branch(o, l, r, c, e) ==
  [lang |-> "L2", tag |-> "Branch", operator |-> o, left |-> l, right |-> r,
   consequent |-> c, otherwise |-> e]

L2Allocate(c) == [lang |-> "L2", tag |-> "Allocate", count |-> c]

L2Load(b, i) == [lang |-> "L2", tag |-> "Load", base |-> b, index |-> i]

L2Store(b, i, v) == [lang |-> "L2", tag |-> "Store", base |-> b, index |-> i, value |-> v]

L2Begin(es, v) == [lang |-> "L2", tag |-> "Begin", effects |-> es, value |-> v]

L2Program(ps, b) == [lang |-> "L2", tag |-> "Program", parameters |-> ps, body |-> b]

(***************************************************************************)
(* The input family: every L3 term within the size budget over two names,  *)
(* one literal, one Allocate count, one index (not the 0 the eliminator    *)
(* emits) and one operator per operator field.                             *)
(***************************************************************************)
Values == {0}

Counts == {3}

Indices == {1}

RECURSIVE NameSeqs(_)
NameSeqs(k) ==
  IF k = 0 THEN {<<>>} ELSE {<<n>> \o s : n \in Names, s \in NameSeqs(k - 1)}

Leaves ==
  {Immediate(v) : v \in Values} \cup {Reference(n) : n \in Names}
    \cup {Allocate(c) : c \in Counts}

\* Every way of naming the values vs, in order, as the bindings of a Let/LetRec.
Bind(vs) == {[i \in 1..Len(vs) |-> <<ns[i], vs[i]>>] : ns \in NameSeqs(Len(vs))}

RECURSIVE TermSeqs(_, _, _)
\* The sequences of k terms whose sizes add up to n, where T[i] is the set of the
\* terms of size i, for every i the sequence can hold.
TermSeqs(T, k, n) ==
  IF k = 0 THEN (IF n = 0 THEN {<<>>} ELSE {})
  ELSE UNION {{<<t>> \o s : t \in T[i], s \in TermSeqs(T, k - 1, n - i)} :
                i \in 1..(n - (k - 1))}

\* The terms of size n >= 2, given the sets T[1..n-1] of the smaller terms.  Every
\* Let, LetRec, Apply and Begin of the family holds at least one binding,
\* argument or effect.
Grow(T, n) ==
  LET kids(k) == TermSeqs(T, k, n - 1) IN
  {Load(s[1], i) : s \in kids(1), i \in Indices}
  \cup {Primitive("+", s[1], s[2]) : s \in kids(2)}
  \cup {Store(s[1], i, s[2]) : s \in kids(2), i \in Indices}
  \cup {Branch("<", s[1], s[2], s[3], s[4]) : s \in TermSeqs(T, 4, n)}
  \cup UNION {{Abstract(ps, b) : ps \in NameSeqs(p), b \in T[n - 1 - p]} : p \in 0..(n - 2)}
  \cup UNION {{Apply(s[1], Tail(s)) : s \in kids(k)} : k \in 2..(n - 1)}
  \cup UNION {{Begin(SubSeq(s, 1, k - 1), s[k]) : s \in kids(k)} : k \in 2..(n - 1)}
  \cup UNION {UNION {{Let(bs, s[k]) : bs \in Bind(SubSeq(s, 1, k - 1))} : s \in kids(k)} :
                k \in 2..(n - 1)}
  \cup UNION {UNION {{LetRec(bs, s[k]) : bs \in Bind(SubSeq(s, 1, k - 1))} : s \in kids(k)} :
                k \in 2..(n - 1)}

RECURSIVE TermsBySize(_, _)
\* <<T[1], ..., T[n]>>: the terms over the leaves lf, by size.
TermsBySize(lf, n) ==
  IF n <= 0 THEN <<>>
  ELSE IF n = 1 THEN <<lf>>
  ELSE LET T == TermsBySize(lf, n - 1) IN Append(T, Grow(T, n))

\* The terms of size below MaxSize, by size, as sets.
BySize == TermsBySize(Leaves, MaxSize - 1)

UpTo(n) == UNION {BySize[i] : i \in 1..n}

\* Emit(t) for some term t of size exactly n >= 2 over the smaller terms T; it
\* enumerates Grow(T, n) without building the set.
GrowSome(T, n, Emit(_)) ==
  \/ \E b \in T[n - 1], i \in Indices : Emit(Load(b, i))
  \/ \E s \in TermSeqs(T, 2, n - 1) : Emit(Primitive("+", s[1], s[2]))
  \/ \E s \in TermSeqs(T, 2, n - 1), i \in Indices : Emit(Store(s[1], i, s[2]))
  \/ \E i \in 1..(n - 3) : \E l \in T[i], s \in TermSeqs(T, 3, n - i) :
       Emit(Branch("<", l, s[1], s[2], s[3]))
  \/ \E p \in 0..(n - 2) : \E ps \in NameSeqs(p), b \in T[n - 1 - p] : Emit(Abstract(ps, b))
  \/ \E k \in 2..(n - 1) : \E s \in TermSeqs(T, k, n - 1) : Emit(Apply(s[1], Tail(s)))
  \/ \E k \in 2..(n - 1) : \E s \in TermSeqs(T, k, n - 1) :
       Emit(Begin(SubSeq(s, 1, k - 1), s[k]))
  \/ \E k \in 2..(n - 1) : \E s \in TermSeqs(T, k, n - 1) :
       \E bs \in Bind(SubSeq(s, 1, k - 1)) : Emit(Let(bs, s[k]))
  \/ \E k \in 2..(n - 1) : \E s \in TermSeqs(T, k, n - 1) :
       \E bs \in Bind(SubSeq(s, 1, k - 1)) : Emit(LetRec(bs, s[k]))

\* Emit(t) for some L3 term t of size at most n <= MaxSize.
SomeTerm(n, Emit(_)) ==
  \/ \E t \in UpTo(IF n < MaxSize THEN n ELSE MaxSize - 1) : Emit(t)
  \/ n = MaxSize /\ GrowSome(BySize, MaxSize, Emit)

RECURSIVE HasForeign(_)
HasForeign(t) ==
  CASE t.tag \in {"Let", "LetRec"} ->
         (\E i \in DOMAIN t.bindings : HasForeign(t.bindings[i][2])) \/ HasForeign(t.body)
    [] t.tag = "Abstract" -> HasForeign(t.body)
    [] t.tag = "Apply" ->
         HasForeign(t.target) \/ \E i \in DOMAIN t.arguments : HasForeign(t.arguments[i])
    [] t.tag = "Primitive" -> HasForeign(t.left) \/ HasForeign(t.right)
    [] t.tag = "Branch" ->
         HasForeign(t.left) \/ HasForeign(t.right) \/ HasForeign(t.consequent)
           \/ HasForeign(t.otherwise)
    [] t.tag = "Load" -> HasForeign(t.base)
    [] t.tag = "Store" -> HasForeign(t.base) \/ HasForeign(t.value)
    [] t.tag = "Begin" ->
         (\E i \in DOMAIN t.effects : HasForeign(t.effects[i])) \/ HasForeign(t.value)
    [] OTHER -> t = Foreign

\* Trees that hold a value outside the grammar somewhere.
ForeignTerms ==
  LET T == TermsBySize(Leaves \cup {Foreign}, MaxForeignSize) IN
  {t \in UNION {T[n] : n \in 1..MaxForeignSize} : HasForeign(t)}

(***************************************************************************)
(* L3/check.py                                                             *)
(***************************************************************************)
\* check_term returns None: the term is accepted.
Accepted == [kind |-> "ok"]

\* raise ValueError(f"unknown variable: {name}")
UnknownVariable(n) == [kind |-> "ValueError", what |-> "unknown variable", name |-> n]

\* raise ValueError(f"duplicate binders: {duplicates}")
DuplicateBinders(d) == [kind |-> "ValueError", what |-> "duplicate binders", duplicates |-> d]

\* raise ValueError(f"duplicate parameters: {duplicates}")
DuplicateParameters(d) ==
  [kind |-> "ValueError", what |-> "duplicate parameters", duplicates |-> d]

\* [name for name, _ in bindings]
BinderNames(bindings) == [i \in DOMAIN bindings |-> bindings[i][1]]

BinderValues(bindings) == [i \in DOMAIN bindings |-> bindings[i][2]]

\* Counter(names): how many times each name occurs.
Counter(names) ==
  [n \in Range(names) |-> Cardinality({i \in DOMAIN names : names[i] = n})]

\* Faulty variant of BinderDuplicates: a scan that compares each name with the
\* one before it only, so a repeat is seen only when the two are adjacent.
BinderDuplicatesAdjacent(names) ==
  [n \in {names[i] : i \in {j \in DOMAIN names : j > 1 /\ names[j] = names[j - 1]}} |-> 2]

\* {name: count for name, count in counts.items() if count > 1}
BinderDuplicates(names) ==
  LET counts == Counter(names) IN
  [n \in {m \in DOMAIN counts : counts[m] > 1} |-> counts[n]]

\* {name for name, count in counts.items() if count > 1}
ParameterDuplicates(parameters) ==
  LET counts == Counter(parameters) IN {n \in DOMAIN counts : counts[n] > 1}

\* dict.fromkeys(names, None), as the set of its keys.
Local(names) == Range(names)

\* Faulty variant of LetValueContext: the values of a Let see its binders, as
\* those of a LetRec do.
LetValueContextRecursive(ctx, local) == ctx \cup local

\* The context a Let checks its values under: recur(value, ctx=context).
LetValueContext(ctx, local) == ctx

\* The context a Let checks its body under: {**context, **local}.
LetBodyContext(ctx, local) == ctx \cup local

\* The context a LetRec checks its values under: {**context, **local}.
LetRecValueContext(ctx, local) == ctx \cup local

\* The context a LetRec checks its body under: {**context, **local}.
LetRecBodyContext(ctx, local) == ctx \cup local

\* The context an Abstract checks its body under: {**context, **local}.
AbstractBodyContext(ctx, local) == ctx \cup local

\* Faulty variant of Unbound: the membership test inverted.
UnboundInverted(n, ctx) == n \in ctx

\* name not in context
Unbound(n, ctx) == n \notin ctx

RECURSIVE check_term(_, _), check_each(_, _)
\* Faulty variant of check_each: the sub-terms are checked last to first, so of
\* several raises the one of the rightmost sub-term is what reaches the caller.
check_each_reversed(ts, ctx) ==
  IF Len(ts) = 0 THEN Accepted
  ELSE LET r == check_term(ts[Len(ts)], ctx) IN
       IF r # Accepted THEN r ELSE check_each(SubSeq(ts, 1, Len(ts) - 1), ctx)

\* The calls recur(t, ctx) for t in ts, in order: the first raise ends them.
check_each(ts, ctx) ==
  IF Len(ts) = 0 THEN Accepted
  ELSE LET r == check_term(ts[1], ctx) IN
       IF r # Accepted THEN r ELSE check_each(Tail(ts), ctx)

check_term(t, ctx) ==
  CASE t.lang = "L3" /\ t.tag = "Let" ->
         LET names == BinderNames(t.bindings)
             duplicates == BinderDuplicates(names)
             local == Local(names)
             r == check_each(BinderValues(t.bindings), LetValueContext(ctx, local))
         IN IF DOMAIN duplicates # {} THEN DuplicateBinders(duplicates)
            ELSE IF r # Accepted THEN r
            ELSE check_term(t.body, LetBodyContext(ctx, local))
    [] t.lang = "L3" /\ t.tag = "LetRec" ->
         LET names == BinderNames(t.bindings)
             duplicates == BinderDuplicates(names)
             local == Local(names)
             r == check_each(BinderValues(t.bindings), LetRecValueContext(ctx, local))
         IN IF DOMAIN duplicates # {} THEN DuplicateBinders(duplicates)
            ELSE IF r # Accepted THEN r
            ELSE check_term(t.body, LetRecBodyContext(ctx, local))
    [] t.lang = "L3" /\ t.tag = "Reference" ->
         IF Unbound(t.name, ctx) THEN UnknownVariable(t.name) ELSE Accepted
    [] t.lang = "L3" /\ t.tag = "Abstract" ->
         LET duplicates == ParameterDuplicates(t.parameters)
             local == Local(t.parameters)
         IN IF duplicates # {} THEN DuplicateParameters(duplicates)
            ELSE check_term(t.body, AbstractBodyContext(ctx, local))
    [] t.lang = "L3" /\ t.tag = "Apply" -> check_each(<<t.target>> \o t.arguments, ctx)
    [] t.lang = "L3" /\ t.tag = "Immediate" -> Accepted
    [] t.lang = "L3" /\ t.tag = "Primitive" -> check_each(<<t.left, t.right>>, ctx)
    [] t.lang = "L3" /\ t.tag = "Branch" ->
         check_each(<<t.left, t.right, t.consequent, t.otherwise>>, ctx)
    [] t.lang = "L3" /\ t.tag = "Allocate" -> Accepted
    [] t.lang = "L3" /\ t.tag = "Load" -> check_each(<<t.base>>, ctx)
    [] t.lang = "L3" /\ t.tag = "Store" -> check_each(<<t.base, t.value>>, ctx)
    [] t.lang = "L3" /\ t.tag = "Begin" -> check_each(t.effects \o <<t.value>>, ctx)
    \* no case of the match statement applies: the function falls off its end
    [] OTHER -> Accepted

check_program(p) ==
  LET duplicates == ParameterDuplicates(p.parameters)
      local == Local(p.parameters)
  IN IF duplicates # {} THEN DuplicateParameters(duplicates)
     ELSE check_term(p.body, local)

(***************************************************************************)
(* L3/eliminate_letrec.py                                                  *)
(***************************************************************************)
\* Faulty variant of Unhandled: the value is passed through instead of raising.
UnhandledPassedThrough(t) == t

\* raise TypeError(f"Unhandled L3 term in eliminate_letrec_term: {term!r}")
Unhandled(t) == [lang |-> "py", tag |-> "TypeError", term |-> t]

Raised(r) == r.lang = "py" /\ r.tag = "TypeError"

\* The value of an expression whose sub-calls returned rs, in evaluation order:
\* the first exception among them if there is one, else the node built.
Build(rs, node) ==
  IF \E i \in DOMAIN rs : Raised(rs[i])
  THEN rs[CHOOSE i \in DOMAIN rs : Raised(rs[i]) /\ \A j \in 1..(i - 1) : ~Raised(rs[j])]
  ELSE node

\* Faulty variant of RecCtx: the binders of the LetRec are not added.
RecCtxNotExtended(ctx, rec_names) == ctx

\* rec_ctx = {**context, **dict.fromkeys(rec_names, None)}
RecCtx(ctx, rec_names) == ctx \cup Range(rec_names)

\* [(name, L2.Allocate(count=1)) for name, _ in bindings]
AllocBindings(bindings) == [i \in DOMAIN bindings |-> <<bindings[i][1], L2Allocate(1)>>]

\* L2.Store(base=L2.Reference(name=name), index=0, value=<the lowered value>)
StoreEffect(name, value) == L2Store(L2Reference(name), 0, value)

\* Faulty variant of LetRecResult: the node is built as a recursive binding of
\* the cells, so a LetRec stays in the tree.
LetRecResultKeepsLetRec(alloc_bindings, effects, new_body) ==
  [lang |-> "L2", tag |-> "LetRec", bindings |-> alloc_bindings,
   body |-> L2Begin(effects, new_body)]

\* Faulty variant of LetRecResult: the stores are sequenced around the Let that
\* allocates the cells instead of inside its body.
LetRecResultStoresOutside(alloc_bindings, effects, new_body) ==
  L2Begin(effects, L2Let(alloc_bindings, new_body))

\* L2.Let(bindings=alloc_bindings, body=L2.Begin(effects=effects, value=new_body))
LetRecResult(alloc_bindings, effects, new_body) ==
  L2Let(alloc_bindings, L2Begin(effects, new_body))

\* Faulty variant of LowerReference: every reference is dereferenced.
LowerReferenceAlwaysLoad(name, ctx) == L2Load(L2Reference(name), 0)

\* The Reference case.
LowerReference(name, ctx) ==
  IF name \in ctx THEN L2Load(L2Reference(name), 0) ELSE L2Reference(name)

\* Faulty variant of LetLowerContext: the binders of a Let are taken for
\* recursive names.
LetLowerContextExtended(ctx, names) == ctx \cup Range(names)

\* The context a Let lowers its values and its body under.
LetLowerContext(ctx, names) == ctx

\* The context an Abstract lowers its body under.
AbstractLowerContext(ctx, parameters) == ctx

RECURSIVE eliminate_letrec_term(_, _)
eliminate_letrec_term(t, ctx) ==
  LET recur(u) == eliminate_letrec_term(u, ctx)
      each(us, c) == [i \in DOMAIN us |-> eliminate_letrec_term(us[i], c)]
  IN
  CASE t.lang = "L3" /\ t.tag = "Let" ->
         LET c == LetLowerContext(ctx, BinderNames(t.bindings))
             values == each(BinderValues(t.bindings), c)
             body == eliminate_letrec_term(t.body, c)
         IN Build(values \o <<body>>,
                  L2Let([i \in DOMAIN values |-> <<t.bindings[i][1], values[i]>>], body))
    [] t.lang = "L3" /\ t.tag = "LetRec" ->
         LET rec_names == BinderNames(t.bindings)
             rec_ctx == RecCtx(ctx, rec_names)
             alloc_bindings == AllocBindings(t.bindings)
             values == each(BinderValues(t.bindings), rec_ctx)
             effects == [i \in DOMAIN values |-> StoreEffect(t.bindings[i][1], values[i])]
             new_body == eliminate_letrec_term(t.body, rec_ctx)
         IN Build(values \o <<new_body>>, LetRecResult(alloc_bindings, effects, new_body))
    [] t.lang = "L3" /\ t.tag = "Reference" -> LowerReference(t.name, ctx)
    [] t.lang = "L3" /\ t.tag = "Abstract" ->
         LET body == eliminate_letrec_term(t.body, AbstractLowerContext(ctx, t.parameters))
         IN Build(<<body>>, L2Abstract(t.parameters, body))
    [] t.lang = "L3" /\ t.tag = "Apply" ->
         LET target == recur(t.target)
             arguments == each(t.arguments, ctx)
         IN Build(<<target>> \o arguments, L2Apply(target, arguments))
    [] t.lang = "L3" /\ t.tag = "Immediate" -> L2Immediate(t.value)
    [] t.lang = "L3" /\ t.tag = "Primitive" ->
         LET left == recur(t.left)
             right == recur(t.right)
         IN Build(<<left, right>>, L2Primitive(t.operator, left, right))
    [] t.lang = "L3" /\ t.tag = "Branch" ->
         LET left == recur(t.left)
             right == recur(t.right)
             consequent == recur(t.consequent)
             otherwise == recur(t.otherwise)
         IN Build(<<left, right, consequent, otherwise>>,
                  L2Branch(t.operator, left, right, consequent, otherwise))
    [] t.lang = "L3" /\ t.tag = "Allocate" -> L2Allocate(t.count)
    [] t.lang = "L3" /\ t.tag = "Load" ->
         LET base == recur(t.base) IN Build(<<base>>, L2Load(base, t.index))
    [] t.lang = "L3" /\ t.tag = "Store" ->
         LET base == recur(t.base)
             value == recur(t.value)
         IN Build(<<base, value>>, L2Store(base, t.index, value))
    [] t.lang = "L3" /\ t.tag = "Begin" ->
         LET effects == each(t.effects, ctx)
             value == recur(t.value)
         IN Build(effects \o <<value>>, L2Begin(effects, value))
    [] OTHER -> Unhandled(t)

eliminate_letrec_program(p) ==
  LET body == eliminate_letrec_term(p.body, {})
  IN Build(<<body>>, L2Program(p.parameters, body))

(***************************************************************************)
(* The state machines.                                                     *)
(***************************************************************************)
NoProgram == [lang |-> "none", tag |-> "none"]

NoTerm == [lang |-> "none", tag |-> "none"]

NoVerdict == [kind |-> "none"]

NoOutput == [lang |-> "none", tag |-> "none"]

\* A Program from the upstream producer, neither checked nor lowered yet.
Init ==
  /\ pc = "input"
  /\ \E p \in 0..(MaxSize - 1) : \E ps \in NameSeqs(p) :
       LET Emit(b) == program = Program(ps, b) IN SomeTerm(MaxSize - p, Emit)
  /\ term = NoTerm
  /\ context = {}
  /\ verdict = NoVerdict
  /\ output = NoOutput

\* check_program(program)
CheckProgram ==
  /\ pc = "input"
  /\ program # NoProgram
  /\ verdict' = check_program(program)
  /\ pc' = "checked"
  /\ UNCHANGED <<program, term, context, output>>

\* eliminate_letrec_program(program)
EliminateProgram ==
  /\ pc = "checked"
  /\ program # NoProgram
  /\ output' = eliminate_letrec_program(program)
  /\ pc' = "lowered"
  /\ UNCHANGED <<program, term, context, verdict>>

Next == CheckProgram \/ EliminateProgram

Spec == Init /\ [][Next]_vars

\* A term and a context, handed to check_term or eliminate_letrec_term directly.
InitTerm ==
  /\ pc = "input"
  /\ program = NoProgram
  /\ \E ctx \in SUBSET Names :
       /\ context = ctx
       /\ \/ LET Emit(t) == term = t IN SomeTerm(MaxSize - Cardinality(ctx), Emit)
          \/ \E t \in ForeignTerms : term = t
  /\ verdict = NoVerdict
  /\ output = NoOutput

\* check_term(term, context)
CheckTerm ==
  /\ pc = "input"
  /\ term # NoTerm
  /\ verdict' = check_term(term, context)
  /\ pc' = "checked"
  /\ UNCHANGED <<program, term, context, output>>

\* eliminate_letrec_term(term, context)
EliminateTerm ==
  /\ pc = "input"
  /\ term # NoTerm
  /\ output' = eliminate_letrec_term(term, context)
  /\ pc' = "lowered"
  /\ UNCHANGED <<program, term, context, verdict>>

NextTerm == CheckTerm \/ EliminateTerm

SpecTerm == InitTerm /\ [][NextTerm]_vars
(***************************************************************************)
(* Tree notions the properties are stated with.  They hold for both        *)
(* languages and are defined on the trees alone, not through check_term or *)
(* eliminate_letrec_term.                                                  *)
(***************************************************************************)
HasBindings(t) == t.tag \in {"Let", "LetRec"}

\* The immediate sub-terms of a node, left to right.
Kids(t) ==
  CASE t.tag \in {"Let", "LetRec"} -> BinderValues(t.bindings) \o <<t.body>>
    [] t.tag = "Abstract" -> <<t.body>>
    [] t.tag = "Apply" -> <<t.target>> \o t.arguments
    [] t.tag = "Primitive" -> <<t.left, t.right>>
    [] t.tag = "Branch" -> <<t.left, t.right, t.consequent, t.otherwise>>
    [] t.tag = "Load" -> <<t.base>>
    [] t.tag = "Store" -> <<t.base, t.value>>
    [] t.tag = "Begin" -> t.effects \o <<t.value>>
    [] OTHER -> <<>>

RECURSIVE HasTag(_, _)
\* Some node of the tree t is of variant tag.
HasTag(t, tag) == t.tag = tag \/ \E i \in DOMAIN Kids(t) : HasTag(Kids(t)[i], tag)

\* The sequence s holds some name twice, at any two positions.
Repeats(s) == \E i, j \in DOMAIN s : i < j /\ s[i] = s[j]

RECURSIVE HasDuplicate(_)
\* Some Let or LetRec of the tree binds a name twice, or some Abstract repeats
\* a parameter.
HasDuplicate(t) ==
  \/ HasBindings(t) /\ Repeats(BinderNames(t.bindings))
  \/ t.tag = "Abstract" /\ Repeats(t.parameters)
  \/ \E i \in DOMAIN Kids(t) : HasDuplicate(Kids(t)[i])

RECURSIVE FreeNames(_)
\* The names the tree refers to outside the scope of a binder of the tree: a Let
\* binds in its body only, a LetRec in its values and its body, an Abstract in
\* its body.
FreeNames(t) ==
  CASE t.tag = "Reference" -> {t.name}
    [] t.tag = "Let" ->
         UNION {FreeNames(t.bindings[i][2]) : i \in DOMAIN t.bindings}
           \cup (FreeNames(t.body) \ Range(BinderNames(t.bindings)))
    [] t.tag = "LetRec" ->
         (UNION {FreeNames(t.bindings[i][2]) : i \in DOMAIN t.bindings}
            \cup FreeNames(t.body)) \ Range(BinderNames(t.bindings))
    [] t.tag = "Abstract" -> FreeNames(t.body) \ Range(t.parameters)
    [] OTHER -> UNION {FreeNames(Kids(t)[i]) : i \in DOMAIN Kids(t)}

Rejected == verdict.kind = "ValueError"

(***************************************************************************)
(* C1  Totality under accept.                                              *)
(***************************************************************************)
\* C1: once a Program that check_program accepted has been lowered, the result
\* is not an exception but an L2 Program, and no node of its tree is a LetRec.
C1_AcceptedLowersWithoutLetRec ==
  (pc = "lowered" /\ verdict = Accepted) =>
    /\ ~Raised(output)
    /\ output.lang = "L2" /\ output.tag = "Program"
    /\ ~HasTag(output.body, "LetRec")

\* An accepted Program with a LetRec of two bindings inside a function body has
\* been lowered.
C1_Witness ==
  /\ pc = "lowered" /\ verdict = Accepted
  /\ program.body.tag = "Abstract"
  /\ program.body.body.tag = "LetRec"
  /\ Len(program.body.body.bindings) = 2

(***************************************************************************)
(* C2  Shadowing rejection.                                                *)
(***************************************************************************)
\* The names a binding construct introduces.
Introduced(t) ==
  IF HasBindings(t) THEN Range(BinderNames(t.bindings))
  ELSE IF t.tag = "Abstract" THEN Range(t.parameters)
  ELSE {}

\* C2: check_term rejects a Let, LetRec or Abstract that introduces a name which
\* is already in the context it is checked under.
C2_ShadowingRejected ==
  (pc = "checked" /\ term # NoTerm /\ Introduced(term) \cap context # {}) => Rejected

(***************************************************************************)
(* C3  Rejection correctness.                                              *)
(***************************************************************************)
\* C3: a Program one of whose References names neither a parameter nor a binder
\* in scope is rejected by check_program; a Program whose References all name
\* something in scope, and which repeats no binder or parameter, is accepted.
C3_UnboundRejectedBoundAccepted ==
  (pc # "input" /\ program # NoProgram) =>
    LET params == Range(program.parameters)
        unbound == FreeNames(program.body) \ params
    IN /\ unbound # {} => Rejected
       /\ (/\ unbound = {}
           /\ ~Repeats(program.parameters)
           /\ ~HasDuplicate(program.body)) => verdict = Accepted

\* A Program was rejected for a Reference, nested in a Let value, to a binder of
\* that same Let.
C3_Witness ==
  /\ pc = "checked" /\ program # NoProgram
  /\ program.body.tag = "Let" /\ Len(program.body.bindings) = 1
  /\ program.body.bindings[1][2] = Reference(program.body.bindings[1][1])
  /\ verdict = UnknownVariable(program.body.bindings[1][1])

(***************************************************************************)
(* C4  Duplicate detection.                                                *)
(***************************************************************************)
\* C4: a Program that repeats a parameter, or that holds anywhere a Let or
\* LetRec binding a name twice or an Abstract repeating a parameter, is rejected
\* by check_program.
C4_DuplicatesRejected ==
  (/\ pc # "input" /\ program # NoProgram
   /\ Repeats(program.parameters) \/ HasDuplicate(program.body)) => Rejected

\* A Program was rejected whose Let binds three names, the first and the third
\* the same.
C4_Witness ==
  /\ pc = "checked" /\ program # NoProgram
  /\ program.body.tag = "Let" /\ Len(program.body.bindings) = 3
  /\ program.body.bindings[1][1] = program.body.bindings[3][1]
  /\ program.body.bindings[1][1] # program.body.bindings[2][1]
  /\ Rejected

(***************************************************************************)
(* C5  Parallel versus recursive scoping.                                  *)
(***************************************************************************)
\* C5: check_term accepts a Let exactly when nothing in it repeats a binder or
\* parameter, every value refers only to names of the context the Let is
\* checked under, and the body only to those and the binders; a Let value that
\* is a Reference to a binder of the Let, not in the context, is rejected as
\* an unknown variable.  It accepts a LetRec exactly when nothing in it repeats
\* a binder or parameter and every value and the body refer only to names of
\* the context and the binders of the LetRec.
C5_LetParallelLetRecRecursive ==
  (pc = "checked" /\ term # NoTerm /\ HasBindings(term)) =>
    LET binders == Range(BinderNames(term.bindings))
        values == BinderValues(term.bindings)
        seen == IF term.tag = "Let" THEN context ELSE context \cup binders
    IN /\ verdict = Accepted <=>
            /\ ~HasDuplicate(term)
            /\ \A i \in DOMAIN values : FreeNames(values[i]) \subseteq seen
            /\ FreeNames(term.body) \subseteq context \cup binders
       /\ \A i \in DOMAIN values :
            (/\ term.tag = "Let"
             /\ ~HasDuplicate(term)
             /\ values[i].tag = "Reference"
             /\ values[i].name \in binders \ context)
              => (Rejected /\ verdict.what = "unknown variable")

\* A LetRec whose first value refers to the binder declared after it was
\* accepted under a context that holds neither binder.
C5_Witness ==
  /\ pc = "checked" /\ term # NoTerm
  /\ term.tag = "LetRec" /\ Len(term.bindings) = 2
  /\ term.bindings[1][2] = Reference(term.bindings[2][1])
  /\ term.bindings[1][1] # term.bindings[2][1]
  /\ context = {}
  /\ verdict = Accepted
(***************************************************************************)
(* C6  LetRec rewrite shape.                                               *)
(***************************************************************************)
\* C6: lowering a LetRec under the recursive names R gives a Let that binds
\* every binder, in order, to Allocate(1), and whose body is a Begin with one
\* Store(Reference(binder), 0, value lowered under R and all the binders) per
\* binding, in order, and with the body lowered under R and all the binders as
\* its value; a value that is a Reference to any binder of the LetRec is stored
\* as Load(Reference(binder), 0).
C6_LetRecShape ==
  (pc = "lowered" /\ term # NoTerm /\ term.tag = "LetRec" /\ ~HasForeign(term)) =>
    LET names == BinderNames(term.bindings)
        values == BinderValues(term.bindings)
        R1 == context \cup Range(names)
    IN /\ output.lang = "L2" /\ output.tag = "Let"
       /\ DOMAIN output = {"lang", "tag", "bindings", "body"}
       /\ output.bindings = [i \in DOMAIN names |-> <<names[i], L2Allocate(1)>>]
       /\ output.body.lang = "L2" /\ output.body.tag = "Begin"
       /\ DOMAIN output.body = {"lang", "tag", "effects", "value"}
       /\ output.body.effects =
            [i \in DOMAIN names |->
               L2Store(L2Reference(names[i]), 0, eliminate_letrec_term(values[i], R1))]
       /\ output.body.value = eliminate_letrec_term(term.body, R1)
       /\ \A i \in DOMAIN values :
            (values[i].tag = "Reference" /\ values[i].name \in Range(names)) =>
              output.body.effects[i].value = L2Load(L2Reference(values[i].name), 0)

\* A LetRec of two bindings, each value a Reference to the other binder, was
\* lowered under the empty set: both stores hold a Load of the other cell.
C6_Witness ==
  /\ pc = "lowered" /\ term # NoTerm /\ context = {}
  /\ term.tag = "LetRec" /\ Len(term.bindings) = 2
  /\ term.bindings[1] = <<"f", Reference("g")>>
  /\ term.bindings[2] = <<"g", Reference("f")>>
  /\ output.body.effects[1] = L2Store(L2Reference("f"), 0, L2Load(L2Reference("g"), 0))
  /\ output.body.effects[2] = L2Store(L2Reference("g"), 0, L2Load(L2Reference("f"), 0))

(***************************************************************************)
(* C7  Reference rewrite.                                                  *)
(***************************************************************************)
\* C7: lowering Reference(name) under R gives Load(Reference(name), 0) when
\* name is in R and Reference(name) when it is not; the sub-terms of a Let,
\* Abstract, Apply, Primitive, Branch, Load, Store or Begin are lowered under
\* the very R the node is lowered under.
C7_ReferenceRewrite ==
  (pc = "lowered" /\ term # NoTerm /\ ~HasForeign(term)) =>
    /\ term.tag = "Reference" =>
         output = IF term.name \in context
                  THEN L2Load(L2Reference(term.name), 0)
                  ELSE L2Reference(term.name)
    /\ term.tag \in {"Let", "Abstract", "Apply", "Primitive", "Branch", "Load",
                     "Store", "Begin"} =>
         /\ output.lang = "L2" /\ output.tag = term.tag
         /\ Kids(output) =
              [i \in DOMAIN Kids(term) |-> eliminate_letrec_term(Kids(term)[i], context)]

\* A Let was lowered under R = {f}: its value, a Reference to f, became a Load,
\* and its body, a Reference to the binder of the Let, stayed a Reference.
C7_Witness ==
  /\ pc = "lowered" /\ context = {"f"}
  /\ term = Let(<<<<"g", Reference("f")>>>>, Reference("g"))
  /\ output = L2Let(<<<<"g", L2Load(L2Reference("f"), 0)>>>>, L2Reference("g"))

(***************************************************************************)
(* C8  Structural identity on LetRec-free input.                           *)
(***************************************************************************)
\* What a node holds besides its sub-terms.
Label(t) ==
  CASE t.tag = "Immediate" -> <<t.value>>
    [] t.tag = "Reference" -> <<t.name>>
    [] t.tag = "Allocate" -> <<t.count>>
    [] t.tag \in {"Let", "LetRec"} -> BinderNames(t.bindings)
    [] t.tag = "Abstract" -> t.parameters
    [] t.tag \in {"Primitive", "Branch"} -> <<t.operator>>
    [] t.tag \in {"Load", "Store"} -> <<t.index>>
    [] OTHER -> <<>>

RECURSIVE SameShape(_, _)
\* The L2 tree b is the L3 tree a, node for node and field for field.
SameShape(a, b) ==
  /\ b.lang = "L2" /\ b.tag = a.tag
  /\ DOMAIN b = DOMAIN a
  /\ Label(b) = Label(a)
  /\ Len(Kids(b)) = Len(Kids(a))
  /\ \A i \in DOMAIN Kids(a) : SameShape(Kids(a)[i], Kids(b)[i])

\* C8: lowering a Program whose body holds no LetRec gives the L2 Program with
\* the same parameters and, at every position of the body, the same variant
\* with the same fields in the same order.
C8_LetRecFreeUnchanged ==
  (pc = "lowered" /\ program # NoProgram /\ ~HasTag(program.body, "LetRec")) =>
    /\ output.lang = "L2" /\ output.tag = "Program"
    /\ DOMAIN output = DOMAIN program
    /\ output.parameters = program.parameters
    /\ SameShape(program.body, output.body)

\* A Begin of two different effects was lowered, the effects still in order.
C8_Witness ==
  /\ pc = "lowered"
  /\ program = Program(<<>>, Begin(<<Reference("f"), Allocate(3)>>, Immediate(0)))
  /\ output = L2Program(<<>>, L2Begin(<<L2Reference("f"), L2Allocate(3)>>, L2Immediate(0)))

(***************************************************************************)
(* C9  Well-formed output.                                                 *)
(***************************************************************************)
RECURSIVE HasLetRepeat(_)
\* Some Let of the tree binds a name twice.
HasLetRepeat(t) ==
  \/ t.tag = "Let" /\ Repeats(BinderNames(t.bindings))
  \/ \E i \in DOMAIN Kids(t) : HasLetRepeat(Kids(t)[i])

\* C9: the Program an accepted Program is lowered to is scope-correct in L2:
\* each of its References, the bases of the emitted Loads and Stores among
\* them, names a parameter of the Program, a binder of an enclosing Let whose
\* body holds it, or a parameter of an enclosing Abstract; and none of its Lets
\* binds a name twice.
C9_OutputWellScoped ==
  (pc = "lowered" /\ verdict = Accepted) =>
    /\ ~Raised(output)
    /\ FreeNames(output.body) \subseteq Range(output.parameters)
    /\ ~HasLetRepeat(output.body)

\* An accepted Program with a LetRec of two mutually referring bindings has
\* been lowered.
C9_Witness ==
  /\ pc = "lowered" /\ verdict = Accepted
  /\ program.body.tag = "LetRec" /\ Len(program.body.bindings) = 2
  /\ program.body.bindings[1][2] = Reference(program.body.bindings[2][1])
  /\ program.body.bindings[2][2] = Reference(program.body.bindings[1][1])
  /\ program.body.body.tag = "Reference"

(***************************************************************************)
(* C10  Unrecognized variant.                                              *)
(***************************************************************************)
\* C10: eliminate_letrec_term on a value that is none of the twelve variants,
\* or on a term that holds such a value at any depth, raises TypeError: what it
\* yields is the exception and no target term.
C10_ForeignRaises ==
  (pc = "lowered" /\ term # NoTerm /\ HasForeign(term)) =>
    /\ Raised(output)
    /\ output.term = Foreign

\* A Store whose base is a Reference and whose value is no term raised.
C10_Witness ==
  /\ pc = "lowered" /\ term # NoTerm
  /\ term.tag = "Store" /\ term.base.tag = "Reference" /\ term.value = Foreign
  /\ Raised(output)

(***************************************************************************)
(* C11  No recursive name is rebound inside its scope.                     *)
(***************************************************************************)
\* The binder kinds a name in scope may have been introduced by, nearest binder
\* last: "Program" and "Abstract" are parameters, "Let" and "LetRec" binders.
Unbinding == [n \in Names |-> "none"]

\* binders, with every name of names now introduced by a binder of that kind.
Rebind(binders, names, kind) ==
  [n \in Names |-> IF n \in Range(names) THEN kind ELSE binders[n]]

\* The nearest-binder kinds each immediate sub-term of t lies under, in the
\* order of Kids(t).
KidBinders(t, binders) ==
  CASE t.tag = "Let" ->
         [i \in DOMAIN t.bindings |-> binders]
           \o <<Rebind(binders, BinderNames(t.bindings), "Let")>>
    [] t.tag = "LetRec" ->
         [i \in DOMAIN Kids(t) |-> Rebind(binders, BinderNames(t.bindings), "LetRec")]
    [] t.tag = "Abstract" -> <<Rebind(binders, t.parameters, "Abstract")>>
    [] OTHER -> [i \in DOMAIN Kids(t) |-> binders]

\* The sub-terms of the lowered term o that stand for the immediate sub-terms of
\* the input t, in the order of Kids(t): a LetRec's values are the values of the
\* Stores and its body the value of the Begin; any other node keeps its shape.
LoweredKids(t, o) ==
  IF t.tag = "LetRec"
  THEN [i \in DOMAIN t.bindings |-> o.body.effects[i].value] \o <<o.body.value>>
  ELSE Kids(o)

RECURSIVE LoadsNonRecursive(_, _, _)
\* Some Reference of the input t whose nearest enclosing binder is not a LetRec
\* stands in the lowered term o as a Load.
LoadsNonRecursive(t, o, binders) ==
  \/ t.tag = "Reference" /\ o.tag = "Load" /\ binders[t.name] # "LetRec"
  \/ \E i \in DOMAIN Kids(t) :
       LoadsNonRecursive(Kids(t)[i], LoweredKids(t, o)[i], KidBinders(t, binders)[i])

\* C11: in the lowering of a Program that check_program accepted, every
\* Reference(name) that became Load(Reference(name), 0) has a LetRec as the
\* nearest enclosing binder of name in the input: a reference to a parameter or
\* to a Let variable is never turned into a cell dereference.
C11_LoadOnlyOfRecursiveName ==
  (pc = "lowered" /\ verdict = Accepted /\ ~Raised(output)) =>
    ~LoadsNonRecursive(program.body, output.body,
                       Rebind(Unbinding, program.parameters, "Program"))

(***************************************************************************)
(* C12  Fail-fast with a real violation.                                   *)
(***************************************************************************)
\* The names that stand at two positions of the sequence s.
RepeatedNames(s) == {s[i] : i \in {k \in DOMAIN s : \E j \in DOMAIN s : j # k /\ s[j] = s[k]}}

\* How often the name n stands in the sequence s.
Occurrences(n, s) == Cardinality({i \in DOMAIN s : s[i] = n})

\* The node t, met under the context ctx, is itself in violation: a Reference
\* to a name that is not in ctx, or a binding or parameter list that repeats a
\* name.
NodeViolates(t, ctx) ==
  \/ t.tag = "Reference" /\ t.name \notin ctx
  \/ HasBindings(t) /\ RepeatedNames(BinderNames(t.bindings)) # {}
  \/ t.tag = "Abstract" /\ RepeatedNames(t.parameters) # {}

\* The contexts the immediate sub-terms of t are met under, in the order of
\* Kids(t).
KidContexts(t, ctx) ==
  CASE t.tag = "Let" ->
         [i \in DOMAIN t.bindings |-> ctx] \o <<ctx \cup Range(BinderNames(t.bindings))>>
    [] t.tag = "LetRec" ->
         [i \in DOMAIN Kids(t) |-> ctx \cup Range(BinderNames(t.bindings))]
    [] t.tag = "Abstract" -> <<ctx \cup Range(t.parameters)>>
    [] OTHER -> [i \in DOMAIN Kids(t) |-> ctx]

RECURSIVE Visits(_, _), VisitsEach(_, _)
\* The nodes of t with the context each is met under, in the order of the
\* traversal: a node before its sub-terms, the sub-terms left to right (Let and
\* LetRec values in binding order, then the body; Apply target, then arguments;
\* Branch left, right, consequent, otherwise; Store base, then value; Begin
\* effects, then value).
Visits(t, ctx) ==
  <<[node |-> t, context |-> ctx]>> \o VisitsEach(Kids(t), KidContexts(t, ctx))

VisitsEach(ts, cs) ==
  IF Len(ts) = 0 THEN <<>>
  ELSE Visits(ts[1], cs[1]) \o VisitsEach(Tail(ts), Tail(cs))

\* The positions of vs whose node is in violation.
Violating(vs) == {i \in DOMAIN vs : NodeViolates(vs[i].node, vs[i].context)}

\* The error verdict is the violation of the node t met under ctx.
ReportsViolationAt(t, ctx) ==
  CASE t.tag = "Reference" ->
         /\ verdict.what = "unknown variable"
         /\ verdict.name = t.name
         /\ t.name \notin ctx
    [] HasBindings(t) ->
         LET names == BinderNames(t.bindings) IN
         /\ verdict.what = "duplicate binders"
         /\ DOMAIN verdict.duplicates = RepeatedNames(names)
         /\ \A n \in DOMAIN verdict.duplicates :
              verdict.duplicates[n] = Occurrences(n, names)
    [] t.tag = "Abstract" ->
         /\ verdict.what = "duplicate parameters"
         /\ verdict.duplicates = RepeatedNames(t.parameters)
    [] OTHER -> FALSE

\* C12: check_term accepts exactly when no node of the traversal is in
\* violation; otherwise its one error is the violation of the first violating
\* node in traversal order, whatever violations stand at later nodes.
C12_FirstViolationReported ==
  (pc = "checked" /\ term # NoTerm) =>
    LET vs == Visits(term, context)
        bad == Violating(vs)
    IN IF bad = {} THEN verdict = Accepted
       ELSE LET first == CHOOSE i \in bad : \A j \in bad : i <= j IN
            /\ Rejected
            /\ ReportsViolationAt(vs[first].node, vs[first].context)

\* A Primitive whose operands are References to two different unbound names has
\* been rejected: both operands are in violation, the left one is reported.
C12_Witness ==
  /\ pc = "checked" /\ term # NoTerm
  /\ term.tag = "Primitive"
  /\ term.left.tag = "Reference" /\ term.right.tag = "Reference"
  /\ term.left.name # term.right.name
  /\ {term.left.name, term.right.name} \cap context = {}
  /\ Rejected /\ verdict.name = term.left.name
====
